---- MODULE Spec2Model ----
(***************************************************************************)
(* DiabetesGuard: the model lifecycle manager (svm_model.py), the request  *)
(* handlers of app.py and the session guard of auth.py.                    *)
(*                                                                         *)
(* Numbers are integers: a probability is a percentage (0..100), a clock   *)
(* value is a count of half seconds, the diabetes pedigree function is in  *)
(* tenths.                                                                 *)
(***************************************************************************)
EXTENDS Integers, Sequences, FiniteSets, TLC

(* ------------------------------ bounds -------------------------------- *)

\* request-handling threads of the Flask process
NumCallers == 2
\* the clock stops after this many half seconds
MaxTime == 2
\* rows the predictions table may hold
MaxRecords == 1

(* ------------------------- program constants -------------------------- *)

\* the 8 named fields of a prediction request (app.py 105-114)
NumFeatures == 8
\* risk thresholds of predict, in percent (svm_model.py 122, 125)
LowBelow == 30
MediumBelow == 70
\* strftime("%Y-%m-%d %H:%M:%S") keeps whole seconds: 2 clock ticks each
TicksPerSecond == 2

Fields == 1..NumFeatures

Main == 0
Callers == 1..NumCallers
Threads == {Main} \cup Callers

None == "None"
\* SVC() / StandardScaler() as constructed: no fitted attributes
Unfit == [fitted |-> FALSE]
\* a manager on which lines 85-93 never ran has no metric attributes
Unset == [set |-> FALSE]

(* ------------------------------ datasets ------------------------------ *)

\* what load_and_preprocess_data can return: the table read from
\* diabetes.csv, or the synthetic table drawn with seed 42
DataSets == {"csv", "synthetic"}

\* per-feature mean and standard deviation of the training partition
\* (synthetic: the distributions of svm_model.py 34-41)
FeatureMean(d) ==
    IF d = "synthetic" THEN <<8, 120, 70, 29, 155, 32, 5, 50>>
                       ELSE <<4, 121, 69, 21, 80, 32, 5, 33>>

FeatureStd(d) ==
    IF d = "synthetic" THEN <<5, 30, 12, 10, 130, 8, 5, 17>>
                       ELSE <<3, 32, 19, 16, 115, 8, 3, 12>>

(* --------------------------- scaler, classifier ----------------------- *)

\* StandardScaler.fit: the parameters it stores
ScalerFit(d) == [fitted |-> TRUE, mean |-> FeatureMean(d), std |-> FeatureStd(d)]

\* StandardScaler.transform with fitted parameters s: (x - mean) / std,
\* kept in tenths
ScalerTransform(s, x) ==
    [i \in Fields |-> ((x[i] - s.mean[i]) * 10) \div s.std[i]]

\* SVC.fit on the partition scaled by s: the fitted parameters. The decision
\* offset and the two coefficients of the probability calibration are fitted
\* separately, so label and probability are separate pathways.
ClassifierFit(d, s) ==
    [fitted |-> TRUE, data |-> d, fitted_on |-> s,
     intercept |-> IF d = "synthetic" THEN 0 ELSE 4,
     probA |-> 1,
     probB |-> IF d = "synthetic" THEN 5 ELSE 2]

RECURSIVE SumTo(_, _)
SumTo(z, n) == IF n = 0 THEN 0 ELSE z[n] + SumTo(z, n - 1)

\* SVC.decision_function of the fitted classifier m on a scaled vector z
Decision(m, z) == SumTo(z, NumFeatures) + m.intercept

\* SVC.predict: the hard decision
ClassifierPredict(m, z) == IF Decision(m, z) > 0 THEN 1 ELSE 0

Clamp(v) == IF v < 0 THEN 0 ELSE IF v > 100 THEN 100 ELSE v

\* SVC.predict_proba[...][1]: the calibrated class-1 probability, in percent
ClassifierProba(m, z) == Clamp(50 + m.probA * Decision(m, z) + m.probB)

(* ------------------------------- predict ------------------------------ *)

\* the thresholds compared with <= instead of <
RiskLevel_Inclusive(probability) ==
    IF probability <= LowBelow THEN "Low"
    ELSE IF probability <= MediumBelow THEN "Medium"
    ELSE "High"

RiskLevel(probability) ==
    IF probability < LowBelow THEN "Low"
    ELSE IF probability < MediumBelow THEN "Medium"
    ELSE "High"

Recommendation(probability) ==
    IF probability < LowBelow
      THEN "Maintain healthy lifestyle with regular checkups"
    ELSE IF probability < MediumBelow
      THEN "Consult healthcare provider and monitor regularly"
    ELSE "Immediate consultation with healthcare provider recommended"

\* lines 114-138 of predict: scale, classify, categorise
PredictResult(m, s, features) ==
    LET z == ScalerTransform(s, features)
        prediction == ClassifierPredict(m, z)
        probability == ClassifierProba(m, z)
    IN  [prediction |-> prediction,
         probability |-> probability,
         risk_level |-> RiskLevel(probability),
         recommendation |-> Recommendation(probability),
         result |-> IF prediction = 1 THEN "Diabetic" ELSE "Non-Diabetic"]

(* -------------------------- persisted artifact ------------------------ *)

\* joblib.dump({'model': ..., 'scaler': ...}): the pickled dictionary, a
\* sequence of key/value pairs in insertion order
Dump_FreshScaler(m, s) == <<<<"model", m>>, <<"scaler", Unfit>>>>

Dump(m, s) == <<<<"model", m>>, <<"scaler", s>>>>

\* saved_model[key] of the unpickled dictionary
Lookup(blob, key) ==
    LET i == CHOOSE j \in 1..Len(blob) : blob[j][1] = key IN blob[i][2]

Absent == [state |-> "absent"]
Corrupt == [state |-> "corrupt"]
Stored(blob) == [state |-> "ok", blob |-> blob]

\* joblib.load succeeds
Readable(a) == a.state = "ok"

(* ------------------------------ evaluation ---------------------------- *)

\* lines 81-93 of train_model: the metrics of classifier m on the test
\* partition of table d
Evaluate(m, d) ==
    LET hit == IF m.fitted /\ m.data = d THEN 9 ELSE 6
    IN  [set |-> TRUE,
         accuracy |-> hit * 10,
         conf_matrix |-> <<<<hit, 10 - hit>>, <<10 - hit, hit>>>>,
         class_report |-> [precision |-> hit * 10, recall |-> hit * 10],
         roc_auc |-> hit * 10 + 5,
         fpr |-> <<0, 10 - hit, 10>>,
         tpr |-> <<0, hit, 10>>]

\* datetime.now().strftime("%Y-%m-%d %H:%M:%S"): the whole second
StrfTime(t) == t \div TicksPerSecond

(* -------------------------------- input ------------------------------- *)

\* the feature vectors requests are made with: the synthetic means, with two
\* glucose levels that put the probability on either side of a threshold
\* (29 and 30 percent after synthetic training, 69 and 70 after csv training)
GlucoseLevels == {42, 45}
TestVectors == {<<8, g, 70, 29, 155, 32, 5, 50>> : g \in GlucoseLevels}

\* a raw JSON field: text that float() accepts, or not
RawNumber(n) == [numeric |-> TRUE, val |-> n]
RawText == [numeric |-> FALSE, val |-> 0]

\* request bodies: every test vector, well formed or with one field that
\* float() rejects
RequestBodies ==
    {[i \in Fields |-> IF i = k THEN RawText ELSE RawNumber(x[i])] :
        x \in TestVectors, k \in 0..NumFeatures}

\* float(data[...]) of lines 106-113 raises for some field
ParseRaises(data) == \E i \in Fields : ~data[i].numeric

\* list(features.values()) of the parsed fields
ParseFeatures(data) == [i \in Fields |-> data[i].val]

(* ------------------------------- accounts ----------------------------- *)

\* werkzeug's generate_password_hash / check_password_hash
HashPassword(password) == <<"pbkdf2", password>>
CheckPassword(hashed, password) == hashed = HashPassword(password)

VARIABLE
    users           \* the users table

\* the accounts registered before the process starts
UserRows ==
    {[id |-> 1, username |-> "asha", password |-> HashPassword("pw-a")],
     [id |-> 2, username |-> "ben", password |-> HashPassword("pw-b")]}

GetUserByUsername(username) == {u \in users : u.username = username}

\* add_user: the table with the new row, under the next id
AddUser(rows, username, hashed) ==
    rows \cup {[id |-> Cardinality(rows) + 1, username |-> username,
                password |-> hashed]}

\* authenticate_user: the matching row, or nothing
AuthenticateUser(username, password) ==
    {u \in GetUserByUsername(username) : CheckPassword(u.password, password)}

Usernames == {"asha", "ben", "eve"}
Passwords == {"pw-a", "pw-b"}

(* -------------------------------- state ------------------------------- *)

VARIABLES
    csv,            \* diabetes.csv on disk: "absent", "good" or "bad"
    artifact,       \* diabetes_model.pkl on disk
    model,          \* diabetes_model.model
    scaler,         \* diabetes_model.scaler
    is_trained,     \* diabetes_model.is_trained
    report,         \* accuracy, conf_matrix, class_report, roc_auc, fpr, tpr
    train_completed,\* history: train_model has returned in this process
    trained_with,   \* history: what the manager that wrote the artifact held
    trained_at,     \* history: the clock when the report was computed
    now,            \* the wall clock, in ticks
    pc,             \* where each thread is
    route,          \* the route a request thread is serving
    features,       \* the parsed feature list of a /prediction request
    df,             \* the table a thread inside train_model works on
    via,            \* how a predict call found its classifier
    result,         \* what predict returned to the handler
    session,        \* each client's session: the user ids it holds
    predictions,    \* the predictions table
    resp            \* the response a handler has returned

vars == <<csv, artifact, model, scaler, is_trained, report, train_completed,
          trained_with, trained_at, now, pc, route, features, df, via, result,
          session, predictions, resp, users>>

disk == <<csv, artifact, users>>
manager == <<model, scaler, is_trained, report>>
history == <<train_completed, trained_with, trained_at>>
locals == <<route, features, df, via, result>>

\* a call that returns a value or raises; None
Returned(value) == [raised |-> FALSE, value |-> value]
Raised(error) == [raised |-> TRUE, error |-> error]
Nothing == [present |-> FALSE]

NoResponse == [kind |-> "none"]
Redirect(to) == [kind |-> "redirect", to |-> to]
Page(name) == [kind |-> "page", template |-> name]
JsonFail(error) == [kind |-> "json", success |-> FALSE, error |-> error]
JsonPrediction(r) ==
    [kind |-> "json", success |-> TRUE, prediction |-> r.prediction,
     probability |-> r.probability, risk_level |-> r.risk_level,
     recommendation |-> r.recommendation, result |-> r.result]
JsonPerformance(metrics, plots) ==
    [kind |-> "json", success |-> TRUE, metrics |-> metrics, plots |-> plots]
JsonOk == [kind |-> "json", success |-> TRUE]
Download(rows) == [kind |-> "file", mimetype |-> "text/csv", rows |-> rows]

TrainSteps == {"t_load", "t_scale", "t_fit", "t_eval", "t_mark", "t_dump"}
InTrainModel(t) == pc[t] \in TrainSteps

\* no thread is inside a handler or the import-time training
Quiescent == pc[Main] = "done" /\ \A c \in Callers : pc[c] = "idle"

\* DiabetesSVMModel.__init__ and the module state of a fresh process
Init ==
    /\ csv \in {"absent", "good", "bad"}
    /\ artifact \in {Absent, Corrupt}
    /\ model = Unfit
    /\ scaler = Unfit
    /\ is_trained = FALSE
    /\ report = Unset
    /\ train_completed = FALSE
    /\ trained_with = [model |-> Unfit, scaler |-> Unfit]
    /\ trained_at = 0
    /\ now = 0
    /\ pc = [t \in Threads |-> IF t = Main THEN "t_load" ELSE "idle"]
    /\ route = [c \in Callers |-> None]
    /\ features = [c \in Callers |-> <<>>]
    /\ df = [t \in Threads |-> None]
    /\ via = [c \in Callers |-> None]
    /\ result = [c \in Callers |-> Nothing]
    /\ session = [c \in Callers |-> {}]
    /\ predictions = <<>>
    /\ resp = [c \in Callers |-> NoResponse]
    /\ users = UserRows

(* ------------------------------ train_model --------------------------- *)

\* predict catching what train_model raises and carrying on
TrainRaises_Swallowed(t, error) ==
    /\ pc' = [pc EXCEPT ![t] = IF t = Main THEN "done" ELSE "transform"]
    /\ df' = [df EXCEPT ![t] = None]
    /\ UNCHANGED <<resp, via, features, route, result>>

\* train_model raises in thread t: the import swallows it (lines 228-229),
\* predict lets it through (line 111) and the /prediction handler answers
\* success:false (app.py 135-136)
TrainRaises(t, error) ==
    IF t = Main
      THEN /\ pc' = [pc EXCEPT ![t] = "done"]
           /\ df' = [df EXCEPT ![t] = None]
           /\ UNCHANGED <<resp, via, features, route, result>>
      ELSE /\ pc' = [pc EXCEPT ![t] = "respond"]
           /\ df' = [df EXCEPT ![t] = None]
           /\ resp' = [resp EXCEPT ![t] = JsonFail(error)]
           /\ UNCHANGED <<via, features, route, result>>

\* train_model returns True in thread t: to the import, or into predict
TrainReturns(t) ==
    /\ pc' = [pc EXCEPT ![t] = IF t = Main THEN "done" ELSE "transform"]
    /\ df' = [df EXCEPT ![t] = None]
    /\ UNCHANGED <<resp, via, features, route, result>>

\* lines 62-71: load the table, drop Outcome, split
TrainLoad(t) ==
    /\ pc[t] = "t_load"
    /\ IF csv = "bad"
         THEN TrainRaises(t, "KeyError")
         ELSE /\ df' = [df EXCEPT ![t] = IF csv = "good" THEN "csv" ELSE "synthetic"]
              /\ pc' = [pc EXCEPT ![t] = "t_scale"]
              /\ UNCHANGED <<resp, via, features, route, result>>
    /\ UNCHANGED <<disk, manager, history, now, session, predictions>>

\* lines 74-75: fit the shared scaler on the train partition
TrainScale(t) ==
    /\ pc[t] = "t_scale"
    /\ scaler' = ScalerFit(df[t])
    /\ pc' = [pc EXCEPT ![t] = "t_fit"]
    /\ UNCHANGED <<disk, model, is_trained, report, history, now, locals,
                   session, predictions, resp>>

\* line 78: fit the shared classifier on the partition this thread scaled
TrainFit(t) ==
    /\ pc[t] = "t_fit"
    /\ model' = ClassifierFit(df[t], ScalerFit(df[t]))
    /\ pc' = [pc EXCEPT ![t] = "t_eval"]
    /\ UNCHANGED <<disk, scaler, is_trained, report, history, now, locals,
                   session, predictions, resp>>

\* lines 81-93: evaluate on the test partition, store the metrics
TrainEval(t) ==
    /\ pc[t] = "t_eval"
    /\ report' = Evaluate(model, df[t])
    /\ trained_at' = now
    /\ pc' = [pc EXCEPT ![t] = "t_mark"]
    /\ UNCHANGED <<disk, model, scaler, is_trained, train_completed,
                   trained_with, now, locals, session, predictions, resp>>

\* line 95
TrainMark(t) ==
    /\ pc[t] = "t_mark"
    /\ is_trained' = TRUE
    /\ pc' = [pc EXCEPT ![t] = "t_dump"]
    /\ UNCHANGED <<disk, model, scaler, report, history, now, locals,
                   session, predictions, resp>>

\* what joblib.dump can do to the file: write it, fail before touching it,
\* or fail part way and leave a truncated file
DumpOutcomes == {"written", "refused", "truncated"}

\* lines 98-99: persist {model, scaler}, return True
TrainDump(t) ==
    /\ pc[t] = "t_dump"
    /\ \E outcome \in DumpOutcomes :
         IF outcome = "written"
           THEN /\ artifact' = Stored(Dump(model, scaler))
                /\ train_completed' = TRUE
                /\ trained_with' = [model |-> model, scaler |-> scaler]
                /\ TrainReturns(t)
           ELSE /\ artifact' = IF outcome = "truncated" THEN Corrupt ELSE artifact
                /\ UNCHANGED <<train_completed, trained_with>>
                /\ TrainRaises(t, "OSError")
    /\ UNCHANGED <<csv, users, manager, trained_at, now, session, predictions>>

(* -------------------------------- predict ----------------------------- *)

\* lines 103-111 of predict for a caller that finds the manager trained or
\* not and the artifact loadable or not: use the classifier in memory, else
\* load the artifact, else train
EnterPredict(c, trained, loadable) ==
    /\ pc[c] = "predict"
    /\ IF trained
         THEN /\ via' = [via EXCEPT ![c] = "trained"]
              /\ pc' = [pc EXCEPT ![c] = "transform"]
              /\ UNCHANGED manager
         ELSE IF loadable
           THEN /\ model' = Lookup(artifact.blob, "model")
                /\ scaler' = Lookup(artifact.blob, "scaler")
                /\ is_trained' = TRUE
                /\ via' = [via EXCEPT ![c] = "loaded"]
                /\ pc' = [pc EXCEPT ![c] = "transform"]
                /\ UNCHANGED report
           ELSE /\ via' = [via EXCEPT ![c] = "train"]
                /\ pc' = [pc EXCEPT ![c] = "t_load"]
                /\ UNCHANGED manager
    /\ UNCHANGED <<disk, history, now, route, features, df, result, session,
                   predictions, resp>>

\* predict that never tries the artifact
PredictEntry_NoLoad(c) == EnterPredict(c, is_trained, FALSE)

\* predict that trains on every call
PredictEntry_Retrain(c) == EnterPredict(c, FALSE, FALSE)

\* predict behind a lock that train_model holds
PredictEntry_SingleFlight(c) ==
    /\ \A d \in Threads \ {c} : ~InTrainModel(d)
    /\ EnterPredict(c, is_trained, Readable(artifact))

\* predict, lines 103-111
PredictEntry(c) == EnterPredict(c, is_trained, Readable(artifact))

\* the row save_prediction inserts (app.py 121-122)
Row(user_id, x, r) ==
    [user_id |-> user_id, features |-> x, prediction_result |-> r.result,
     probability |-> r.probability, risk_level |-> r.risk_level]

SessionUser(c) == CHOOSE u \in session[c] : TRUE

\* save_prediction: insert the row
SavePrediction(rows, user_id, x, r) == Append(rows, Row(user_id, x, r))

\* lines 114-138 of predict: scale, classify, categorise, return.
\* check_is_fitted makes transform and predict raise NotFittedError on an
\* estimator that was never fit; the handler answers success:false.
PredictFinish(c) ==
    /\ pc[c] = "transform"
    /\ IF ~scaler.fitted \/ ~model.fitted
         THEN /\ pc' = [pc EXCEPT ![c] = "respond"]
              /\ resp' = [resp EXCEPT ![c] = JsonFail("NotFittedError")]
              /\ UNCHANGED result
         ELSE /\ pc' = [pc EXCEPT ![c] = "save"]
              /\ result' = [result EXCEPT ![c] =
                     [present |-> TRUE] @@ PredictResult(model, scaler, features[c])]
              /\ UNCHANGED resp
    /\ UNCHANGED <<disk, manager, history, now, route, features, df, via,
                   session, predictions>>

\* a handler that answers success:true whether or not the row was saved
PredictionSave_IgnoreFailure(c) ==
    /\ pc[c] = "save"
    /\ pc' = [pc EXCEPT ![c] = "respond"]
    /\ \E saved \in {FALSE} \cup {Len(predictions) < MaxRecords} :
         /\ predictions' =
              IF saved
                THEN SavePrediction(predictions, SessionUser(c), features[c], result[c])
                ELSE predictions
         /\ resp' = [resp EXCEPT ![c] = JsonPrediction(result[c])]
    /\ UNCHANGED <<disk, manager, history, now, locals, session>>

\* app.py 119-136: save the row under the session's user, answer with the
\* result. save_prediction inserts the row or raises; it raises when the
\* table is full.
PredictionSave(c) ==
    /\ pc[c] = "save"
    /\ pc' = [pc EXCEPT ![c] = "respond"]
    /\ \E saved \in {FALSE} \cup {Len(predictions) < MaxRecords} :
         IF saved
           THEN /\ predictions' =
                     SavePrediction(predictions, SessionUser(c), features[c], result[c])
                /\ resp' = [resp EXCEPT ![c] = JsonPrediction(result[c])]
           ELSE /\ UNCHANGED predictions
                /\ resp' = [resp EXCEPT ![c] = JsonFail("OperationalError")]
    /\ UNCHANGED <<disk, manager, history, now, locals, session>>

(* ------------------------- metrics and plots -------------------------- *)

\* get_model_metrics (lines 211-221) in the current state
GetModelMetrics ==
    IF ~is_trained THEN Returned(Nothing)
    ELSE IF ~report.set THEN Raised("AttributeError")
    ELSE Returned([present |-> TRUE,
                   accuracy |-> report.accuracy,
                   roc_auc |-> report.roc_auc,
                   classification_report |-> report.class_report,
                   training_date |-> StrfTime(now)])

\* a figure saved as PNG and base64-encoded
Png(figure) == <<"png", figure>>

\* get_performance_plots (lines 140-209) in the current state
GetPerformancePlots ==
    IF ~is_trained THEN Returned(Nothing)
    ELSE IF ~report.set THEN Raised("AttributeError")
    ELSE Returned([present |-> TRUE,
                   confusion_matrix |-> Png(report.conf_matrix),
                   roc_curve |-> Png(<<report.fpr, report.tpr, report.roc_auc>>),
                   feature_importance |-> Png(<<15, 25, 8, 7, 12, 18, 10, 5>>)])

(* ------------------------------- handlers ----------------------------- *)

Serving(c) == pc[Main] = "done" /\ pc[c] = "idle"

\* handler c returns response r for route name
Respond(c, name, r) ==
    /\ pc' = [pc EXCEPT ![c] = "respond"]
    /\ route' = [route EXCEPT ![c] = name]
    /\ resp' = [resp EXCEPT ![c] = r]

\* a guard that lets every request through
LoggedIn_Always(c) == TRUE

\* login_required (auth.py 8-15)
LoggedIn(c) == session[c] # {}

\* /login, POST (app.py 57-76)
Login(c, username, password) ==
    /\ Serving(c)
    /\ LET found == AuthenticateUser(username, password)
       IN  IF found # {}
             THEN /\ session' = [session EXCEPT ![c] = {u.id : u \in found}]
                  /\ Respond(c, "login", Redirect("dashboard"))
             ELSE /\ UNCHANGED session
                  /\ Respond(c, "login", Page("login.html"))
    /\ UNCHANGED <<disk, manager, history, now, features, df, via, result,
                   predictions>>

\* /logout (app.py 78-82)
Logout(c) ==
    /\ Serving(c)
    /\ session' = [session EXCEPT ![c] = {}]
    /\ Respond(c, "logout", Redirect("index"))
    /\ UNCHANGED <<disk, manager, history, now, features, df, via, result,
                   predictions>>

\* /prediction, GET (app.py 98-101, 138)
PredictionGet(c) ==
    /\ Serving(c)
    /\ IF ~LoggedIn(c)
         THEN Respond(c, "prediction", Redirect("login"))
         ELSE Respond(c, "prediction", Page("prediction.html"))
    /\ UNCHANGED <<disk, manager, history, now, features, df, via, result,
                   session, predictions>>

\* /prediction, POST, up to the call of predict (app.py 98-117)
PredictionPost(c, data) ==
    /\ Serving(c)
    /\ IF ~LoggedIn(c)
         THEN /\ Respond(c, "prediction", Redirect("login"))
              /\ UNCHANGED features
         ELSE IF ParseRaises(data)
           THEN /\ Respond(c, "prediction", JsonFail("ValueError"))
                /\ UNCHANGED features
           ELSE /\ features' = [features EXCEPT ![c] = ParseFeatures(data)]
                /\ pc' = [pc EXCEPT ![c] = "predict"]
                /\ route' = [route EXCEPT ![c] = "prediction"]
                /\ UNCHANGED resp
    /\ UNCHANGED <<disk, manager, history, now, df, via, result, session,
                   predictions>>

\* /performance (app.py 200-213)
Performance(c) ==
    /\ Serving(c)
    /\ IF ~LoggedIn(c)
         THEN Respond(c, "performance", Redirect("login"))
         ELSE LET metrics == GetModelMetrics
                  plots == GetPerformancePlots
              IN  IF metrics.raised
                    THEN Respond(c, "performance", JsonFail(metrics.error))
                  ELSE IF plots.raised
                    THEN Respond(c, "performance", JsonFail(plots.error))
                  ELSE Respond(c, "performance",
                               JsonPerformance(metrics.value, plots.value))
    /\ UNCHANGED <<disk, manager, history, now, features, df, via, result,
                   session, predictions>>

\* /clear_history (app.py 184-198)
ClearHistory(c) ==
    /\ Serving(c)
    /\ IF ~LoggedIn(c)
         THEN /\ Respond(c, "clear_history", Redirect("login"))
              /\ UNCHANGED predictions
         ELSE \E deleted \in BOOLEAN :
                IF deleted
                  THEN LET Others(r) == r.user_id # SessionUser(c)
                       IN  /\ predictions' = SelectSeq(predictions, Others)
                           /\ Respond(c, "clear_history", JsonOk)
                  ELSE /\ UNCHANGED predictions
                       /\ Respond(c, "clear_history", JsonFail("OperationalError"))
    /\ UNCHANGED <<disk, manager, history, now, features, df, via, result,
                   session>>

\* everything but the session, the users table and the response of a handler
\* that only reads
untouched == <<csv, artifact, manager, history, now, features, df, via, result,
               predictions>>

\* / (app.py 33-37)
Index(c) ==
    /\ Serving(c)
    /\ IF session[c] # {}
         THEN Respond(c, "index", Redirect("dashboard"))
         ELSE Respond(c, "index", Page("index.html"))
    /\ UNCHANGED <<untouched, session, users>>

\* /register, GET (app.py 39-41, 55)
RegisterPage(c) ==
    /\ Serving(c)
    /\ Respond(c, "register", Page("register.html"))
    /\ UNCHANGED <<untouched, session, users>>

\* /register, POST (app.py 39-55): add_user refuses a username that is taken,
\* and may refuse any other (the email is taken); the session is not touched
Register(c, username, password) ==
    /\ Serving(c)
    /\ \E added \in {FALSE} \cup {GetUserByUsername(username) = {}} :
         IF added
           THEN /\ users' = AddUser(users, username, HashPassword(password))
                /\ Respond(c, "register", Redirect("login"))
           ELSE /\ UNCHANGED users
                /\ Respond(c, "register", Page("register.html"))
    /\ UNCHANGED <<untouched, session>>

\* /login, GET (app.py 57-59, 76)
LoginPage(c) ==
    /\ Serving(c)
    /\ Respond(c, "login", Page("login.html"))
    /\ UNCHANGED <<untouched, session, users>>

\* /dashboard (app.py 84-96)
Dashboard(c) ==
    /\ Serving(c)
    /\ IF ~LoggedIn(c)
         THEN Respond(c, "dashboard", Redirect("login"))
         ELSE Respond(c, "dashboard", Page("dashboard.html"))
    /\ UNCHANGED <<untouched, session, users>>

\* /history (app.py 140-144)
History(c) ==
    /\ Serving(c)
    /\ IF ~LoggedIn(c)
         THEN Respond(c, "history", Redirect("login"))
         ELSE Respond(c, "history", Page("history.html"))
    /\ UNCHANGED <<untouched, session, users>>

\* /download_history (app.py 146-182): the user's rows as a csv attachment
DownloadHistory(c) ==
    /\ Serving(c)
    /\ IF ~LoggedIn(c)
         THEN Respond(c, "download_history", Redirect("login"))
         ELSE LET Mine(r) == r.user_id = SessionUser(c)
              IN  Respond(c, "download_history",
                          Download(SelectSeq(predictions, Mine)))
    /\ UNCHANGED <<untouched, session, users>>

\* /profile, GET and POST (app.py 215-243): a POST updates email, full_name,
\* age and gender in the table and in the session, never user_id
Profile(c) ==
    /\ Serving(c)
    /\ IF ~LoggedIn(c)
         THEN Respond(c, "profile", Redirect("login"))
         ELSE Respond(c, "profile", Page("profile.html"))
    /\ UNCHANGED <<untouched, session, users>>

\* /update_password (app.py 245-259): checks the current password, changes
\* nothing, redirects to the profile
UpdatePassword(c, current_password) ==
    /\ Serving(c)
    /\ IF ~LoggedIn(c)
         THEN Respond(c, "update_password", Redirect("login"))
         ELSE LET mine == {u \in users : u.id \in session[c]}
                  correct == \E u \in mine :
                                 CheckPassword(u.password, current_password)
              IN  Respond(c, "update_password",
                          [kind |-> "redirect", to |-> "profile",
                           flash_ok |-> correct])
    /\ UNCHANGED <<untouched, session, users>>

\* the response leaves; the thread is free for the next request
Deliver(c) ==
    /\ pc[c] = "respond"
    /\ pc' = [pc EXCEPT ![c] = "idle"]
    /\ resp' = [resp EXCEPT ![c] = NoResponse]
    /\ route' = [route EXCEPT ![c] = None]
    /\ features' = [features EXCEPT ![c] = <<>>]
    /\ via' = [via EXCEPT ![c] = None]
    /\ result' = [result EXCEPT ![c] = Nothing]
    /\ UNCHANGED <<disk, manager, history, now, df, session, predictions>>

(* ------------------------------ environment --------------------------- *)

\* time passes
Tick ==
    /\ Quiescent
    /\ now < MaxTime
    /\ now' = now + 1
    /\ UNCHANGED <<disk, manager, history, pc, locals, session, predictions, resp>>

\* diabetes.csv is replaced, removed or put in place
EditCsv(content) ==
    /\ Quiescent
    /\ content # csv
    /\ csv' = content
    /\ UNCHANGED <<artifact, users, manager, history, now, pc, locals, session,
                   predictions, resp>>

\* the process is restarted: svm_model is imported again (lines 223-229);
\* the files, the database and the clients' cookies stay
Restart ==
    /\ Quiescent
    /\ model' = Unfit
    /\ scaler' = Unfit
    /\ is_trained' = FALSE
    /\ report' = Unset
    /\ train_completed' = FALSE
    /\ trained_at' = 0
    /\ pc' = [pc EXCEPT ![Main] = "t_load"]
    /\ UNCHANGED <<disk, trained_with, now, locals, session, predictions, resp>>

(* ----------------------------- specification -------------------------- *)

Step(t) ==
    \/ TrainLoad(t)
    \/ TrainScale(t)
    \/ TrainFit(t)
    \/ TrainEval(t)
    \/ TrainMark(t)
    \/ TrainDump(t)

Request(c) ==
    \/ \E u \in Usernames, p \in Passwords : Login(c, u, p)
    \/ Logout(c)
    \/ PredictionGet(c)
    \/ \E data \in RequestBodies : PredictionPost(c, data)
    \/ PredictEntry(c)
    \/ PredictFinish(c)
    \/ PredictionSave(c)
    \/ Performance(c)
    \/ ClearHistory(c)
    \/ Deliver(c)

Environment ==
    \/ Tick
    \/ \E content \in {"absent", "good", "bad"} : EditCsv(content)
    \/ Restart

\* the single worker thread of a server that serves one request at a time
Worker == CHOOSE c \in Callers : \A d \in Callers : c <= d

Next ==
    \/ \E t \in {Main, Worker} : Step(t)
    \/ Request(Worker)
    \/ Environment

Spec == Init /\ [][Next]_vars

WellFormedBodies == {data \in RequestBodies : ~ParseRaises(data)}

\* a threaded server: every caller thread serves the well-formed /prediction
\* requests of one logged-in user
NextThreaded ==
    \/ \E t \in Threads : Step(t)
    \/ \E c \in Callers :
         \/ Login(c, "asha", "pw-a")
         \/ \E data \in WellFormedBodies : PredictionPost(c, data)
         \/ PredictEntry(c)
         \/ PredictFinish(c)
         \/ PredictionSave(c)
         \/ Deliver(c)
    \/ \E content \in {"absent", "good", "bad"} : EditCsv(content)

SpecThreaded == Init /\ [][NextThreaded]_vars

\* the routes that touch only the session and the users table
SessionRoutes(c) ==
    \/ Index(c)
    \/ RegisterPage(c)
    \/ \E u \in Usernames, p \in Passwords : Register(c, u, p)
    \/ LoginPage(c)
    \/ Dashboard(c)
    \/ History(c)
    \/ DownloadHistory(c)
    \/ Profile(c)
    \/ \E p \in Passwords : UpdatePassword(c, p)

\* one client on a server that serves one request at a time: every route,
\* with the files and the clock left alone
NextSession ==
    \/ \E t \in {Main, Worker} : Step(t)
    \/ Request(Worker)
    \/ SessionRoutes(Worker)

SpecSession == Init /\ [][NextSession]_vars

(* -------------------------------- claims ------------------------------ *)

PerformanceAnswered(c) ==
    /\ pc[c] = "respond"
    /\ route[c] = "performance"
    /\ resp[c].kind = "json"
    /\ resp[c].success

\* C1: whenever a call can be made, get_model_metrics returns None, without
\* raising, if train_model has never completed in this process, and the full
\* report otherwise.
C1_MetricsAbsentUntilTrained ==
    Quiescent =>
        /\ ~GetModelMetrics.raised
        /\ GetModelMetrics.value.present <=> train_completed

\* C2: a predict call that finds is_trained false calls train_model exactly
\* when the artifact cannot be loaded, and otherwise goes on with the loaded
\* artifact; whenever predict returns, is_trained is true, the label is 0 or 1
\* and the risk tier is Low, Medium or High.
C2_LoadThenTrain ==
    [][\A c \in Callers :
         /\ (pc[c] = "predict" /\ pc'[c] # "predict" /\ ~is_trained) =>
               /\ (pc'[c] = "t_load") <=> ~Readable(artifact)
               /\ Readable(artifact) => (is_trained' /\ pc'[c] = "transform")
         /\ (pc[c] = "transform" /\ pc'[c] = "save") =>
               /\ is_trained'
               /\ result'[c].present
               /\ result'[c].prediction \in {0, 1}
               /\ result'[c].risk_level \in {"Low", "Medium", "High"}]_vars

C2_Witness ==
    \E c \in Callers : pc[c] = "save" /\ via[c] = "train" /\ result[c].present

\* C3: the risk tier of every result predict returns is decided by the
\* probability alone: Low below 30 percent, Medium from 30 to below 70, High
\* from 70; each tier has its one recommendation.
C3_RiskTier ==
    \A c \in Callers :
        result[c].present =>
            LET p == result[c].probability
                tier == result[c].risk_level
                advice == result[c].recommendation
            IN  /\ p \in 0..100
                /\ tier = "Low" <=> p < 30
                /\ tier = "Medium" <=> (30 <= p /\ p < 70)
                /\ tier = "High" <=> p >= 70
                /\ tier = "Low" =>
                     advice = "Maintain healthy lifestyle with regular checkups"
                /\ tier = "Medium" =>
                     advice = "Consult healthcare provider and monitor regularly"
                /\ tier = "High" =>
                     advice = "Immediate consultation with healthcare provider recommended"

C3_Witness ==
    \E c \in Callers :
        /\ result[c].present
        /\ result[c].probability = 30
        /\ result[c].risk_level = "Medium"
        /\ result[c].prediction = 0

\* C4: a manager that has just loaded the artifact holds the classifier and
\* scaler of the manager that wrote it, and predicts the same label and
\* probability for every input vector.
C4_RoundTrip ==
    \A c \in Callers :
        (pc[c] = "transform" /\ via[c] = "loaded") =>
            /\ model = trained_with.model
            /\ scaler = trained_with.scaler
            /\ \A x \in TestVectors :
                 LET mine == PredictResult(model, scaler, x)
                     theirs == PredictResult(trained_with.model, trained_with.scaler, x)
                 IN  /\ mine.prediction = theirs.prediction
                     /\ mine.probability = theirs.probability

C4_Witness ==
    \E c \in Callers :
        /\ pc[c] = "transform"
        /\ via[c] = "loaded"
        /\ model.fitted
        /\ model.data = "csv"

\* C5: the training_date get_model_metrics returns is the time of the
\* training run that computed the report.
C5_TrainingTimestamp ==
    \A c \in Callers :
        (PerformanceAnswered(c) /\ resp[c].metrics.present) =>
            resp[c].metrics.training_date = StrfTime(trained_at)

\* C6: a /prediction POST answers success:true only in the step that saves
\* exactly one row, the parsed features and the result under the session's
\* user; it answers success:false with the table as it was, and no step
\* before the answer touches the table.
C6_SaveThenSuccess ==
    [][\A c \in Callers :
         /\ (pc[c] # "respond" /\ pc'[c] = "respond" /\ route'[c] = "prediction"
                /\ resp'[c].kind = "json") =>
               IF resp'[c].success
                 THEN /\ LoggedIn(c)
                      /\ result[c].present
                      /\ predictions' =
                           Append(predictions,
                                  [user_id |-> SessionUser(c),
                                   features |-> features[c],
                                   prediction_result |-> result[c].result,
                                   probability |-> result[c].probability,
                                   risk_level |-> result[c].risk_level])
                      /\ resp'[c].probability = result[c].probability
                      /\ resp'[c].risk_level = result[c].risk_level
                 ELSE predictions' = predictions
         /\ (pc[c] \in {"predict", "transform"} \cup TrainSteps) =>
               predictions' = predictions]_vars

C6_Witness ==
    \E c \in Callers :
        /\ pc[c] = "respond"
        /\ route[c] = "prediction"
        /\ resp[c].kind = "json"
        /\ resp[c].success
        /\ Len(predictions) = 1
        /\ predictions[1].user_id = 2

\* C7: whenever train_model ends, by returning or by raising, with is_trained
\* true, the metrics are stored and the artifact holds the classifier and
\* scaler just fitted.
C7_TrainedMeansPersisted ==
    [][\A t \in Threads :
         (InTrainModel(t) /\ ~InTrainModel(t)' /\ is_trained') =>
             /\ report'.set
             /\ artifact' = Stored(Dump(model', scaler'))]_vars

\* C8: nothing makes a predict call wait for a training run in progress: a
\* caller that finds no classifier and no loadable artifact can always enter
\* train_model, whoever else is inside it.
C8_NotSingleFlight ==
    \A c \in Callers :
        (pc[c] = "predict" /\ ~is_trained /\ ~Readable(artifact)) =>
            ENABLED (PredictEntry(c) /\ pc'[c] = "t_load")

C8_Witness ==
    \E c, d \in Callers :
        /\ c # d
        /\ pc[c] = "t_fit"
        /\ pc[d] = "t_scale"
        /\ via[c] = "train"
        /\ via[d] = "train"

\* C9: predict reaches transform only with a fitted scaler, and after a
\* fallback training only if train_model returned; the scaler stored in a
\* readable artifact is a fitted one.
C9_FitBeforeTransform ==
    /\ \A c \in Callers :
         pc[c] = "transform" =>
             /\ scaler.fitted
             /\ is_trained
             /\ via[c] = "train" => train_completed
    /\ Readable(artifact) => Lookup(artifact.blob, "scaler").fitted

C9_Witness ==
    \E c \in Callers : pc[c] = "save" /\ via[c] = "loaded"

\* C10: while is_trained is true no step but a restart of the process changes
\* the classifier, the scaler, is_trained or the metrics, and outside
\* train_model no step changes the artifact.
C10_TrainedIsFrozen ==
    [][(is_trained /\ ~(pc[Main] = "done" /\ pc'[Main] = "t_load")) =>
          /\ UNCHANGED <<model, scaler, is_trained, report>>
          /\ (\A t \in Threads : ~InTrainModel(t)) => artifact' = artifact]_vars

C10_Witness ==
    \E c \in Callers :
        /\ pc[c] = "respond"
        /\ via[c] = "trained"
        /\ resp[c].kind = "json"
        /\ resp[c].success
        /\ csv # "good"
        /\ model.fitted
        /\ model.data = "csv"

\* the routes decorated with login_required
ProtectedRoutes ==
    {"dashboard", "prediction", "history", "download_history", "clear_history",
     "performance", "profile", "update_password"}

\* caller c sends a request to a protected route in this step
Requests(c) == pc[c] = "idle" /\ pc'[c] # "idle" /\ route'[c] \in ProtectedRoutes

\* the step turns the request of caller c away to the login page and changes
\* nothing else
TurnedAway(c) ==
    /\ pc'[c] = "respond"
    /\ resp'[c] = Redirect("login")
    /\ UNCHANGED <<disk, manager, history, session, predictions, features, df,
                   via, result>>

\* C11: over any sequence of register, login, logout and page requests, (1) a
\* request to a login_required route made while the session holds no user_id is
\* answered by the redirect to login and changes nothing, and no caller is
\* inside a route body, or holds an answer of a protected route other than
\* that redirect, with an empty session; (2) a step puts a user_id in a session
\* only as a login whose authenticate_user found that user, and register never
\* does; (3) logout leaves the session empty, so that with (1) and (2) every
\* protected request redirects until the next successful login.
C11_SessionGuard ==
    [][\A c \in Callers :
         /\ Requests(c) /\ session[c] = {} => TurnedAway(c)
         /\ pc'[c] \notin {"idle", "respond"} => session'[c] # {}
         /\ ( /\ pc'[c] = "respond"
              /\ route'[c] \in ProtectedRoutes
              /\ resp'[c] # Redirect("login") ) => session'[c] # {}
         /\ session'[c] # session[c] /\ session'[c] # {} =>
              /\ pc[c] = "idle"
              /\ route'[c] = "login"
              /\ resp'[c] = Redirect("dashboard")
              /\ \E username \in Usernames, password \in Passwords :
                   /\ AuthenticateUser(username, password) # {}
                   /\ session'[c] =
                        {u.id : u \in AuthenticateUser(username, password)}
         /\ pc[c] = "idle" /\ route'[c] = "logout" => session'[c] = {}
         /\ pc[c] = "idle" /\ route'[c] = "register" => session'[c] = session[c]
      ]_vars

\* a user who registered, logged in and saved a prediction has logged out and
\* is turned away from the history page
C11_Witness ==
    \E c \in Callers :
        /\ users # UserRows
        /\ \E i \in DOMAIN predictions :
             predictions[i].user_id \notin {u.id : u \in UserRows}
        /\ session[c] = {}
        /\ pc[c] = "respond"
        /\ route[c] = "history"
        /\ resp[c] = Redirect("login")

====
